---- MODULE Spec2Model ----
(***************************************************************************)
(* Model of hack/tools/cmd/konflux/visualize.py: a linear script that      *)
(* loads a JSON array of commit summaries, aggregates them into weekly     *)
(* built/published counts and monthly build-duration groups, and draws     *)
(* three panels.  Each statement group of the script is one action; pc     *)
(* names the next statement group to run.                                  *)
(***************************************************************************)
EXTENDS Integers, Sequences, FiniteSets, TLC

VARIABLES pc, error, rawData, rawCommits, commits, fraction,
          rawTags, tags, intervals, values, shown

vars == <<pc, error, rawData, rawCommits, commits, fraction,
          rawTags, tags, intervals, values, shown>>

\* Largest number of records in the input array.
MaxRecords == 2

-----------------------------------------------------------------------------
(* Calendar arithmetic of datetime, over the months the inputs touch.  Day  *)
(* numbers count from 2023-12-01 (a Friday), which is day 0.               *)

MonthTable ==
  << [y |-> 2023, mo |-> 11, first |-> -30, len |-> 30],
     [y |-> 2023, mo |-> 12, first |-> 0,   len |-> 31],
     [y |-> 2024, mo |-> 1,  first |-> 31,  len |-> 31],
     [y |-> 2024, mo |-> 2,  first |-> 62,  len |-> 29] >>

\* The month-table row holding ordinal day `day`.
MonthRow(day) ==
  MonthTable[CHOOSE k \in 1..Len(MonthTable) :
      /\ MonthTable[k].first <= day
      /\ day < MonthTable[k].first + MonthTable[k].len]

\* datetime.day: the day of the month, 1-based.
DayOfMonth(day) == day - MonthRow(day).first + 1

\* datetime.weekday(): Monday is 0 and Sunday is 6.
Weekday(day) == (day + 4) % 7

\* The ordinal day of a civil date.
Ordinal(y, mo, d) ==
  LET k == CHOOSE j \in 1..Len(MonthTable) :
               MonthTable[j].y = y /\ MonthTable[j].mo = mo
  IN  MonthTable[k].first + d - 1

\* An ISO-8601 string with an explicit offset, by its fields; off is the
\* UTC offset in minutes, east positive.
Iso(y, mo, d, h, mi, s, off) ==
  [y |-> y, mo |-> mo, d |-> d, h |-> h, mi |-> mi, s |-> s, off |-> off]

\* ToUTC with the offset dropped instead of applied, as replace(tzinfo=utc)
\* would do.
MutToUTC(iso) ==
  LET total == Ordinal(iso.y, iso.mo, iso.d) * 86400
               + iso.h * 3600 + iso.mi * 60 + iso.s
  IN  [day |-> total \div 86400, sec |-> total % 86400]

\* datetime.fromisoformat(s).astimezone(timezone.utc): the instant as a UTC
\* day number and second of that day.
ToUTC(iso) ==
  LET total == Ordinal(iso.y, iso.mo, iso.d) * 86400
               + iso.h * 3600 + iso.mi * 60 + iso.s - iso.off * 60
  IN  [day |-> total \div 86400, sec |-> total % 86400]

\* The difference of two UTC datetimes, timedelta.total_seconds().
TotalSeconds(later, earlier) ==
  (later.day - earlier.day) * 86400 + later.sec - earlier.sec

\* strftime('%Y-%m') of a UTC datetime.
FormatYearMonth(t) == [y |-> MonthRow(t.day).y, mo |-> MonthRow(t.day).mo]

-----------------------------------------------------------------------------
(* The input file: a JSON array of objects with the string field date, the *)
(* field published (true, false, 1 or 0) and, for published commits, the   *)
(* string field publishedTime.                                             *)

\* The ISO-8601 string, at UTC offset off minutes, of the instant lag seconds
\* after the instant the ISO-8601 string iso names.
Shift(iso, lag, off) ==
  LET total == Ordinal(iso.y, iso.mo, iso.d) * 86400
               + iso.h * 3600 + iso.mi * 60 + iso.s
               + lag + (off - iso.off) * 60
      day   == total \div 86400
      sec   == total % 86400
      row   == MonthRow(day)
  IN  Iso(row.y, row.mo, day - row.first + 1,
          sec \div 3600, (sec % 3600) \div 60, sec % 60, off)

\* Placeholder held by a field the JSON object does not have; never read.
Absent == Iso(2023, 12, 1, 0, 0, 0, 0)

\* Commit dates of the input records.  DateB is Monday 2024-01-01 in its own
\* offset and Sunday 2023-12-31 in UTC; DateD is Sunday 2024-01-21 in its own
\* offset and Monday 2024-01-22 in UTC; DateE is late on a Sunday.
DateA == Iso(2024, 1, 1, 0, 0, 0, 0)
DateB == Iso(2024, 1, 1, 1, 0, 0, 120)
DateC == Iso(2024, 1, 3, 12, 0, 0, 0)
DateD == Iso(2024, 1, 21, 20, 0, 0, -300)
DateE == Iso(2024, 1, 7, 23, 59, 59, 0)

CommitDates == {DateA, DateB, DateC, DateD, DateE}

\* A record of a commit that was built and not published.
Unpublished(date, token) ==
  [has |-> {"date", "published"}, date |-> date, published |-> token,
   publishedTime |-> Absent]

\* A record of a commit published lag seconds after it was committed, the
\* publish time written at UTC offset off.
Published(date, lag, off, token) ==
  [has |-> {"date", "published", "publishedTime"}, date |-> date,
   published |-> token, publishedTime |-> Shift(date, lag, off)]

\* Records that lack a required field.
NoDate ==
  [has |-> {"published"}, date |-> Absent, published |-> "false",
   publishedTime |-> Absent]
NoPublished ==
  [has |-> {"date"}, date |-> DateC, published |-> "false",
   publishedTime |-> Absent]
NoPublishedTime ==
  [has |-> {"date", "published"}, date |-> DateC, published |-> "true",
   publishedTime |-> Absent]

Records ==
  {Unpublished(d, "false") : d \in CommitDates}
    \cup {Unpublished(DateA, "0")}
    \cup {Published(d, 600, 0, "true") : d \in CommitDates}
    \cup {Published(DateC, 45, 120, "1"), Published(DateD, 45, 0, "true")}
    \cup {Published(DateA, -60, 0, "true")}
    \cup {NoDate, NoPublished, NoPublishedTime}

\* The arrays json.load can return.
Inputs == UNION {[1..n -> Records] : n \in 0..MaxRecords}

\* IntOf counting only the JSON value true, as `i['published'] is True`
\* would do.
MutIntOf(token) == IF token = "true" THEN 1 ELSE 0

\* int(i['published']) for the JSON values true, false, 1 and 0.
IntOf(token) == IF token \in {"true", "1"} THEN 1 ELSE 0

\* The truth value of i['published'] in `if i['published']`.
Truthy(token) == token \in {"true", "1"}

-----------------------------------------------------------------------------
(* Commit aggregation.                                                     *)

\* RawCommitsOf with the values of the keys built and published exchanged.
MutRawCommitsOf(data) ==
  [k \in 1..Len(data) |->
     [date |-> ToUTC(data[k].date), built |-> IntOf(data[k].published),
      published |-> 1]]

\* The list comprehension building rawCommits.
RawCommitsOf(data) ==
  [k \in 1..Len(data) |->
     [date |-> ToUTC(data[k].date), built |-> 1,
      published |-> IntOf(data[k].published)]]

\* Whether the comprehension building rawCommits raises KeyError.
RawCommitsFails(data) ==
  \E k \in 1..Len(data) : {"date", "published"} \ data[k].has # {}

MinDay(rc) == CHOOSE d \in {rc[k].date.day : k \in 1..Len(rc)} :
                 \A k \in 1..Len(rc) : d <= rc[k].date.day
MaxDay(rc) == CHOOSE d \in {rc[k].date.day : k \in 1..Len(rc)} :
                 \A k \in 1..Len(rc) : d >= rc[k].date.day

\* Timestamp - Week(weekday=6): the last Sunday strictly before day.
SundayBefore(day) == day - (Weekday(day) + 1)
\* Timestamp + Week(weekday=6): the first Sunday strictly after day.
SundayAfter(day) == day + (IF Weekday(day) = 6 THEN 7 ELSE 6 - Weekday(day))

\* BinEdges without the removal of the last edge.
MutBinEdges(rc) ==
  LET first == SundayBefore(MinDay(rc))
      last  == SundayAfter(MaxDay(rc))
      n     == (last - first) \div 7
  IN  [j \in 1..(n + 1) |-> first + 7 * (j - 1)]

\* The bin edges of resample('W'): the Sundays from the one before the
\* earliest date to the one after the latest date; the last edge is dropped
\* when the edge before it already closes a bin holding the latest date.
BinEdges(rc) ==
  LET first == SundayBefore(MinDay(rc))
      last  == SundayAfter(MaxDay(rc))
      n     == (last - first) \div 7
      all   == [j \in 1..(n + 1) |-> first + 7 * (j - 1)]
  IN  IF all[n] >= MaxDay(rc) THEN SubSeq(all, 1, n) ELSE all

\* InBin with the bin closed on the left, as resample('W', closed='left')
\* would do.
MutInBin(rc, lo, hi) ==
  {k \in 1..Len(rc) : lo <= rc[k].date.day /\ rc[k].date.day < hi}

\* The rows of rc in the bin closed on the right by the end of day hi and
\* open on the left at the end of day lo.
InBin(rc, lo, hi) ==
  {k \in 1..Len(rc) : lo < rc[k].date.day /\ rc[k].date.day <= hi}

RECURSIVE SumOver(_, _, _)
SumOver(rc, rows, col) ==
  IF rows = {} THEN 0
  ELSE LET k == CHOOSE x \in rows : TRUE
       IN  (IF col = "built" THEN rc[k].built ELSE rc[k].published)
           + SumOver(rc, rows \ {k}, col)

\* commits.resample('W').sum(): one row per weekly bin, labelled by the
\* Sunday closing it, empty bins summing to 0.
Resample(rc) ==
  IF Len(rc) = 0 THEN << >>
  ELSE LET edges == BinEdges(rc)
       IN  [j \in 1..(Len(edges) - 1) |->
              [week      |-> edges[j + 1],
               built     |-> SumOver(rc, InBin(rc, edges[j], edges[j + 1]), "built"),
               published |-> SumOver(rc, InBin(rc, edges[j], edges[j + 1]), "published")]]

\* FractionOf with dividend and divisor exchanged.
MutFractionOf(row) ==
  IF row.published = 0
    THEN [nan |-> TRUE, num |-> 0, den |-> 0]
    ELSE [nan |-> FALSE, num |-> row.built, den |-> row.published]

\* f = commits.published.astype(float) / commits.built.astype(float), each
\* entry an exact ratio num/den, or NaN for 0.0 / 0.0.
FractionOf(row) ==
  IF row.built = 0
    THEN [nan |-> TRUE, num |-> 0, den |-> 0]
    ELSE [nan |-> FALSE, num |-> row.published, den |-> row.built]

-----------------------------------------------------------------------------
(* Duration aggregation.                                                   *)

\* roundedTime(time): time minus time.day days, at midnight.
roundedTime(time) == [day |-> time.day - DayOfMonth(time.day), sec |-> 0]

\* PublishedRows skipping the published records that have no publishedTime.
RECURSIVE MutPublishedRows(_, _)
MutPublishedRows(data, k) ==
  IF k > Len(data) THEN << >>
  ELSE (IF Truthy(data[k].published) /\ "publishedTime" \in data[k].has
          THEN <<k>> ELSE << >>)
       \o MutPublishedRows(data, k + 1)

\* The indices of the records the comprehension building rawTags keeps.
RECURSIVE PublishedRows(_, _)
PublishedRows(data, k) ==
  IF k > Len(data) THEN << >>
  ELSE (IF Truthy(data[k].published) THEN <<k>> ELSE << >>)
       \o PublishedRows(data, k + 1)

\* The list comprehension building rawTags.
RawTagsOf(data) ==
  LET rows == PublishedRows(data, 1)
  IN  [j \in 1..Len(rows) |->
         [date        |-> roundedTime(ToUTC(data[rows[j]].date)),
          commitDate  |-> ToUTC(data[rows[j]].date),
          publishDate |-> ToUTC(data[rows[j]].publishedTime)]]

\* Whether the comprehension building rawTags raises KeyError.
RawTagsFails(data) ==
  LET rows == PublishedRows(data, 1)
  IN  \E j \in 1..Len(rows) : "publishedTime" \notin data[rows[j]].has

\* The rows of the tags frame.
TagsOf(rt) ==
  [j \in 1..Len(rt) |->
     [date     |-> rt[j].date,
      duration |-> TotalSeconds(rt[j].publishDate, rt[j].commitDate)]]

\* The elements of the set of integers S in ascending order.
RECURSIVE Ascending(_)
Ascending(S) ==
  IF S = {} THEN << >>
  ELSE LET m == CHOOSE x \in S : \A y \in S : x <= y
       IN  <<m>> \o Ascending(S \ {m})

\* seq with x inserted before its first element greater than x.
RECURSIVE Insert(_, _)
Insert(x, seq) ==
  IF Len(seq) = 0 THEN <<x>>
  ELSE IF x <= Head(seq) THEN <<x>> \o seq
  ELSE <<Head(seq)>> \o Insert(x, Tail(seq))

\* SortValues leaving the durations in row order.
MutSortValues(seq) == seq

\* durations.sort_values(): seq in ascending order.
RECURSIVE SortValues(_)
SortValues(seq) ==
  IF Len(seq) = 0 THEN << >>
  ELSE Insert(Head(seq), SortValues(Tail(seq)))

\* The durations of the rows of tg whose date is the day key, in row order.
RECURSIVE DurationsOf(_, _, _)
DurationsOf(tg, key, j) ==
  IF j > Len(tg) THEN << >>
  ELSE (IF tg[j].date.day = key THEN <<tg[j].duration>> ELSE << >>)
       \o DurationsOf(tg, key, j + 1)

\* The group keys of tags.groupby(['date']), in ascending order.
GroupKeys(tg) == Ascending({tg[j].date.day : j \in 1..Len(tg)})

\* The list intervals after the loop over the groups.
IntervalsOf(tg) ==
  LET keys == GroupKeys(tg)
  IN  [g \in 1..Len(keys) |-> [day |-> keys[g], sec |-> 0]]

\* The list values after the loop over the groups.
ValuesOf(tg) ==
  LET keys == GroupKeys(tg)
  IN  [g \in 1..Len(keys) |-> SortValues(DurationsOf(tg, keys[g], 1))]

\* format_interval(x, pos): the tick label of the group at position pos.
format_interval(ivs, pos) == FormatYearMonth(ivs[pos])

-----------------------------------------------------------------------------
(* The script, statement group by statement group.                         *)

Init ==
  /\ pc = "load"
  /\ error = "none"
  /\ rawData = << >>
  /\ rawCommits = << >>
  /\ commits = << >>
  /\ fraction = << >>
  /\ rawTags = << >>
  /\ tags = << >>
  /\ intervals = << >>
  /\ values = << >>
  /\ shown = FALSE

\* An uncaught exception ends the script.
Raise(kind) == pc' = "failed" /\ error' = kind

\* json.load reads the input array.
Load ==
  /\ pc = "load"
  /\ \E data \in Inputs : rawData' = data
  /\ pc' = "rawCommits"
  /\ UNCHANGED <<error, rawCommits, commits, fraction, rawTags, tags,
                 intervals, values, shown>>

\* rawCommits = [...]: a record without date or published raises KeyError.
BuildRawCommits ==
  /\ pc = "rawCommits"
  /\ IF RawCommitsFails(rawData)
       THEN Raise("KeyError") /\ UNCHANGED rawCommits
       ELSE /\ rawCommits' = RawCommitsOf(rawData)
            /\ pc' = "resample"
            /\ UNCHANGED error
  /\ UNCHANGED <<rawData, commits, fraction, rawTags, tags, intervals,
                 values, shown>>

\* commits = pd.DataFrame(...) and commits = commits.resample('W').sum().
ResampleCommits ==
  /\ pc = "resample"
  /\ commits' = Resample(rawCommits)
  /\ pc' = "countplot"
  /\ UNCHANGED <<error, rawData, rawCommits, fraction, rawTags, tags,
                 intervals, values, shown>>

\* The count panel: an empty frame has no column built, and reading it
\* raises AttributeError.
CountPlot ==
  /\ pc = "countplot"
  /\ IF Len(commits) = 0
       THEN Raise("AttributeError")
       ELSE pc' = "fractionplot" /\ UNCHANGED error
  /\ UNCHANGED <<rawData, rawCommits, commits, fraction, rawTags, tags,
                 intervals, values, shown>>

\* The rate panel: f is computed row by row and both stacks are drawn.
FractionPlot ==
  /\ pc = "fractionplot"
  /\ fraction' = [j \in 1..Len(commits) |-> FractionOf(commits[j])]
  /\ pc' = "rawTags"
  /\ UNCHANGED <<error, rawData, rawCommits, commits, rawTags, tags,
                 intervals, values, shown>>

\* rawTags = [...]: a published record without publishedTime raises KeyError.
BuildRawTags ==
  /\ pc = "rawTags"
  /\ IF RawTagsFails(rawData)
       THEN Raise("KeyError") /\ UNCHANGED rawTags
       ELSE /\ rawTags' = RawTagsOf(rawData)
            /\ pc' = "tags"
            /\ UNCHANGED error
  /\ UNCHANGED <<rawData, rawCommits, commits, fraction, tags, intervals,
                 values, shown>>

\* tags = pd.DataFrame(...).
BuildTags ==
  /\ pc = "tags"
  /\ tags' = TagsOf(rawTags)
  /\ pc' = "groupby"
  /\ UNCHANGED <<error, rawData, rawCommits, commits, fraction, rawTags,
                 intervals, values, shown>>

\* The loop over tags.groupby(['date']): a frame built from no rows has no
\* column date, and grouping by it raises KeyError.
GroupDurations ==
  /\ pc = "groupby"
  /\ IF Len(tags) = 0
       THEN Raise("KeyError") /\ UNCHANGED <<intervals, values>>
       ELSE /\ intervals' = IntervalsOf(tags)
            /\ values' = ValuesOf(tags)
            /\ pc' = "boxplot"
            /\ UNCHANGED error
  /\ UNCHANGED <<rawData, rawCommits, commits, fraction, rawTags, tags, shown>>

\* durationplot.boxplot(values) and the axis formatting after it.
BoxPlot ==
  /\ pc = "boxplot"
  /\ pc' = "show"
  /\ UNCHANGED <<error, rawData, rawCommits, commits, fraction, rawTags,
                 tags, intervals, values, shown>>

\* plt.show().
Show ==
  /\ pc = "show"
  /\ shown' = TRUE
  /\ pc' = "done"
  /\ UNCHANGED <<error, rawData, rawCommits, commits, fraction, rawTags,
                 tags, intervals, values>>

Next ==
  \/ Load
  \/ BuildRawCommits
  \/ ResampleCommits
  \/ CountPlot
  \/ FractionPlot
  \/ BuildRawTags
  \/ BuildTags
  \/ GroupDurations
  \/ BoxPlot
  \/ Show

Spec == Init /\ [][Next]_vars

-----------------------------------------------------------------------------
(* Vocabulary of the properties, read off the input array rather than off  *)
(* the script's intermediate lists.                                        *)

\* The UTC calendar day of an ISO-8601 string: the date fields of the same
\* instant written at offset zero.
UTCDay(iso) ==
  LET z == Shift(iso, 0, 0) IN Ordinal(z.y, z.mo, z.d)

\* The seconds from the instant iso names to the instant other names.
SecondsBetween(iso, other) ==
  LET z == Shift(iso, 0, 0)
      w == Shift(other, 0, 0)
  IN  (Ordinal(w.y, w.mo, w.d) - Ordinal(z.y, z.mo, z.d)) * 86400
      + (w.h - z.h) * 3600 + (w.mi - z.mi) * 60 + (w.s - z.s)

\* The first day of the calendar month holding ordinal day `day`.
MonthStart(day) == MonthRow(day).first

IsPublished(r) == r.published \in {"true", "1"}

\* A record with every field the input format requires of it.
WellFormed(r) ==
  /\ {"date", "published"} \subseteq r.has
  /\ IsPublished(r) => "publishedTime" \in r.has

AllWellFormed == \A k \in 1..Len(rawData) : WellFormed(rawData[k])

PublishedIndices == {k \in 1..Len(rawData) : IsPublished(rawData[k])}

\* The records whose UTC commit day lies in the seven days ending on week.
InWeek(week) ==
  {k \in 1..Len(rawData) :
     /\ week - 6 <= UTCDay(rawData[k].date)
     /\ UTCDay(rawData[k].date) <= week}

\* The number of times v occurs in seq.
Occurrences(seq, v) == Cardinality({a \in 1..Len(seq) : seq[a] = v})

RECURSIVE SumColumn(_, _, _)
SumColumn(rows, col, j) ==
  IF j > Len(rows) THEN 0
  ELSE (IF col = "built" THEN rows[j].built ELSE rows[j].published)
       + SumColumn(rows, col, j + 1)

RECURSIVE TotalLength(_, _)
TotalLength(groups, g) ==
  IF g > Len(groups) THEN 0
  ELSE Len(groups[g]) + TotalLength(groups, g + 1)

\* The month groups have been built.
Grouped == pc \in {"boxplot", "show", "done"}

\* The script has reached or passed the display of the chart.
Displayed == pc \in {"show", "done"} \/ shown

-----------------------------------------------------------------------------
(* C1: every weekly bucket produced by the commit aggregation satisfies    *)
(* 0 <= published <= built.                                                *)
C1_PublishedWithinBuilt ==
  \A j \in 1..Len(commits) :
     0 <= commits[j].published /\ commits[j].published <= commits[j].built

\* A finished run with a bucket where every commit was published and a bucket
\* where none was.
C1_Witness ==
  /\ pc = "done"
  /\ \E j \in 1..Len(commits) :
        commits[j].published = commits[j].built /\ commits[j].built > 0
  /\ \E j \in 1..Len(commits) :
        commits[j].published = 0 /\ commits[j].built > 0

(* C2: for a non-empty input the weekly buckets are chronological with     *)
(* keys exactly 7 days apart, run from the week of the earliest commit to  *)
(* the week of the latest commit, and a week of the span without commits   *)
(* is present with built = 0 and published = 0.                            *)
C2_NoMissingWeeks ==
  Len(commits) > 0 =>
    /\ \A j \in 1..(Len(commits) - 1) :
          commits[j + 1].week = commits[j].week + 7
    /\ \E k \in InWeek(commits[1].week) :
          \A m \in 1..Len(rawData) :
             UTCDay(rawData[k].date) <= UTCDay(rawData[m].date)
    /\ \E k \in InWeek(commits[Len(commits)].week) :
          \A m \in 1..Len(rawData) :
             UTCDay(rawData[k].date) >= UTCDay(rawData[m].date)
    /\ \A j \in 1..Len(commits) :
          InWeek(commits[j].week) = {} =>
             commits[j].built = 0 /\ commits[j].published = 0

\* A finished run over four weeks whose two middle weeks hold no commit.
C2_Witness ==
  /\ pc = "done"
  /\ Len(commits) = 4
  /\ InWeek(commits[2].week) = {}
  /\ InWeek(commits[3].week) = {}

(* C3: every record is counted in exactly one weekly bucket, the one whose *)
(* week, seven days ending on a Sunday, holds its UTC commit date; built   *)
(* is the number of records of that week and published the number of them  *)
(* that are published.                                                     *)
C3_CountedInItsWeek ==
  Len(commits) > 0 =>
    /\ \A j \in 1..Len(commits) :
          /\ Weekday(commits[j].week) = 6
          /\ commits[j].built = Cardinality(InWeek(commits[j].week))
          /\ commits[j].published =
               Cardinality(InWeek(commits[j].week) \cap PublishedIndices)
    /\ \A k \in 1..Len(rawData) :
          Cardinality({j \in 1..Len(commits) : k \in InWeek(commits[j].week)}) = 1

\* A finished run with two records in one week, one of them published.
C3_Witness ==
  /\ pc = "done"
  /\ Len(rawData) = 2
  /\ Len(commits) = 1
  /\ commits[1].built = 2
  /\ commits[1].published = 1

(* C4: for every published record the duration placed in its month group  *)
(* is publishedTime minus date in seconds, and the durations of each month *)
(* group are in ascending order.                                           *)
C4_DurationsSorted ==
  Grouped =>
    /\ \A g \in 1..Len(values) :
          \A a, b \in 1..Len(values[g]) :
             a < b => values[g][a] <= values[g][b]
    /\ \A k \in PublishedIndices :
          \E g \in 1..Len(values) :
             \A m \in PublishedIndices :
                LET d == SecondsBetween(rawData[m].date, rawData[m].publishedTime)
                    same == {n \in PublishedIndices :
                               /\ MonthStart(UTCDay(rawData[n].date))
                                    = MonthStart(UTCDay(rawData[k].date))
                               /\ SecondsBetween(rawData[n].date,
                                                 rawData[n].publishedTime) = d}
                IN  Occurrences(values[g], d) = Cardinality(same)
    /\ TotalLength(values, 1) = Cardinality(PublishedIndices)

\* A finished run where a month group holds two durations that the input
\* lists in descending order.
C4_Witness ==
  /\ pc = "done"
  /\ Len(rawData) >= 2
  /\ PublishedIndices = 1..Len(rawData)
  /\ SecondsBetween(rawData[1].date, rawData[1].publishedTime)
       > SecondsBetween(rawData[2].date, rawData[2].publishedTime)
  /\ \E g \in 1..Len(values) : Len(values[g]) >= 2 /\ values[g][1] < values[g][2]

(* C5: the key of the month group of a published record is the first      *)
(* instant of the calendar month of its commit date and the label of the   *)
(* group is that month; a record committed 2024-01-01T00:00:00Z and        *)
(* published ten minutes later gives the group 2024-01 with values [600].  *)
C5_KeyIsFirstOfCommitMonth ==
  Grouped =>
    /\ \A k \in PublishedIndices :
          \E g \in 1..Len(intervals) :
             /\ intervals[g] =
                  [day |-> MonthStart(UTCDay(rawData[k].date)), sec |-> 0]
             /\ format_interval(intervals, g) =
                  [y  |-> MonthRow(UTCDay(rawData[k].date)).y,
                   mo |-> MonthRow(UTCDay(rawData[k].date)).mo]
    /\ rawData = <<Published(DateA, 600, 0, "true")>> =>
          /\ Len(intervals) = 1
          /\ format_interval(intervals, 1) = [y |-> 2024, mo |-> 1]
          /\ values = << <<600>> >>

(* C6: a published record whose publishedTime is earlier than its commit   *)
(* date is reported as a data anomaly; the chart display is never reached  *)
(* with a negative duration in a month group without that report.          *)
C6_NegativeDurationReported ==
  Displayed =>
    \/ \A g \in 1..Len(values) : \A a \in 1..Len(values[g]) : values[g][a] >= 0
    \/ error = "DataAnomalyError"

(* C7: when a record lacks date, lacks published, or is published without  *)
(* publishedTime, the run ends in an error before the chart is displayed;  *)
(* the display is never reached with aggregates of a subset of the records.*)
C7_MalformedRecordFailsRun ==
  /\ ~AllWellFormed =>
        /\ ~Displayed
        /\ ~(ENABLED Next) => pc = "failed" /\ error = "KeyError"
  /\ Displayed =>
        /\ SumColumn(commits, "built", 1) = Len(rawData)
        /\ TotalLength(values, 1) = Cardinality(PublishedIndices)

\* A run that built the weekly buckets and then failed on a published record
\* without publishedTime.
C7_Witness ==
  /\ pc = "failed"
  /\ error = "KeyError"
  /\ Len(commits) > 0
  /\ \E k \in PublishedIndices : "publishedTime" \notin rawData[k].has

\* The input array with the date of record k, or its publishedTime, written
\* at UTC offset off: the same instants in another representation.
Rewritten(data, k, field, off) ==
  [data EXCEPT ![k] =
     IF field = "date"
       THEN [@ EXCEPT !.date = Shift(@, 0, off)]
       ELSE [@ EXCEPT !.publishedTime = Shift(@, 0, off)]]

\* UTC offsets, in minutes, a timestamp may be rewritten at.
Offsets == {0, 120, -300, 840}

(* C8: timestamps are converted to UTC before bucketing and arithmetic:    *)
(* writing a record's date or publishedTime at another UTC offset leaves   *)
(* the weekly buckets, the month groups and the durations unchanged, and   *)
(* week and month membership follow the UTC calendar date.                 *)
C8_OffsetIndependent ==
  /\ Len(commits) > 0 =>
        /\ \A k \in 1..Len(rawData) : \A off \in Offsets :
              Resample(RawCommitsOf(Rewritten(rawData, k, "date", off))) = commits
        /\ \A k \in 1..Len(rawData) :
              \E j \in 1..Len(commits) :
                 /\ commits[j].week - 6 <= UTCDay(rawData[k].date)
                 /\ UTCDay(rawData[k].date) <= commits[j].week
                 /\ commits[j].built >= 1
  /\ Grouped =>
        /\ \A k \in PublishedIndices : \A off \in Offsets :
              \A field \in {"date", "publishedTime"} :
                 LET tg == TagsOf(RawTagsOf(Rewritten(rawData, k, field, off)))
                 IN  IntervalsOf(tg) = intervals /\ ValuesOf(tg) = values
        /\ \A k, m \in PublishedIndices :
              LET sameMonth == MonthStart(UTCDay(rawData[k].date))
                                 = MonthStart(UTCDay(rawData[m].date))
                  sameGroup == roundedTime(ToUTC(rawData[k].date))
                                 = roundedTime(ToUTC(rawData[m].date))
              IN  sameMonth <=> sameGroup

\* A finished run over two published records dated 2024-01-01 in their own
\* offsets, one of which is 2023-12-31 in UTC: they fall in different weeks
\* and different month groups.
C8_Witness ==
  /\ pc = "done"
  /\ Len(rawData) = 2
  /\ rawData[1].date = DateB
  /\ rawData[2].date = DateA
  /\ Len(commits) = 2
  /\ Len(values) = 2

(* C9: for every weekly bucket, the zero-filled weeks included, the rate   *)
(* published/built*100 is well defined (built is not zero), both plotted   *)
(* components lie within 0..100, and they sum to 100.                      *)
C9_RateDefinedEverywhere ==
  \A j \in 1..Len(fraction) :
     /\ ~fraction[j].nan
     /\ commits[j].built # 0
     /\ 0 <= 100 * fraction[j].num
     /\ 100 * fraction[j].num <= 100 * fraction[j].den
     /\ 100 * fraction[j].num + 100 * (fraction[j].den - fraction[j].num)
          = 100 * fraction[j].den

(* C9 as amended: for every weekly bucket with built > 0 the rate is the   *)
(* ratio published/built, both plotted components lie within 0..100 and    *)
(* they sum to 100; for a zero-filled week the rate is 0/0, not a number.  *)
C9_RateDefinedWhereBuilt ==
  \A j \in 1..Len(fraction) :
     IF commits[j].built = 0
       THEN fraction[j].nan
       ELSE /\ ~fraction[j].nan
            /\ fraction[j].num = commits[j].published
            /\ fraction[j].den = commits[j].built
            /\ 0 <= 100 * fraction[j].num
            /\ 100 * fraction[j].num <= 100 * fraction[j].den
            /\ 100 * fraction[j].num + 100 * (fraction[j].den - fraction[j].num)
                 = 100 * fraction[j].den

\* A finished run with a zero-filled week, a week whose rate is 0 and a week
\* whose rate is 100.
C9_Witness ==
  /\ pc = "done"
  /\ \E j \in 1..Len(fraction) : fraction[j].nan
  /\ \E j \in 1..Len(fraction) :
        ~fraction[j].nan /\ fraction[j].num = 0 /\ fraction[j].den > 0
  /\ \E j \in 1..Len(fraction) :
        ~fraction[j].nan /\ fraction[j].num = fraction[j].den

(* C10: the two aggregations agree on which records are published: the    *)
(* number of duration values over all month groups equals the sum of       *)
(* published over all weekly buckets and the number of records whose       *)
(* published flag is true; an unpublished record adds to built only.       *)
C10_AggregationsAgree ==
  Grouped =>
    /\ TotalLength(values, 1) = SumColumn(commits, "published", 1)
    /\ TotalLength(values, 1) = Cardinality(PublishedIndices)
    /\ Len(tags) = Cardinality(PublishedIndices)
    /\ SumColumn(commits, "built", 1) = Len(rawData)

\* A finished run over an unpublished record and a record published with the
\* flag 1.
C10_Witness ==
  /\ pc = "done"
  /\ \E k \in 1..Len(rawData) : rawData[k].published = "1"
  /\ \E k \in 1..Len(rawData) : rawData[k].published \in {"false", "0"}

====
